---- MODULE Spec2Model ----
(***************************************************************************)
(* Model of the continuum localhost network: the hub (Server), its peer    *)
(* sessions (ClientConnection), the delayed-delivery queue, host migration *)
(* and the port-registry bootstrap of several plugin instances.            *)
(*                                                                         *)
(* Spec     : one live Server and the events its asyncore loop dispatches. *)
(* BootSpec : several plugin instances (processes) bootstrapping on one    *)
(*            workspace; their steps interleave at system-call grain.      *)
(***************************************************************************)
EXTENDS Integers, Sequences, FiniteSets, TLC

\* ---------------------------------------------------------------- bounds
NSessions == 2          \* ClientConnection objects the Server ever accepts
NIds == 2               \* distinct idb paths (identifiers)
MaxMsgs == 3            \* inbound messages the Server handles in one run
NPorts == 1             \* sampled values of the random port range
NInstances == 2         \* plugin instances (processes) on the workspace
MaxOpens == 2           \* open_project calls in one run

\* ------------------------------------------------------- program constants
PortLo == 10000         \* random.uniform(10000, 65535), lower end
PortHi == 65535         \* random.uniform(10000, 65535), upper end

None == 0               \* Python None (idb_path before new_client, no file)
Sessions == 1 .. NSessions
Ids == 1 .. NIds
Symbols == 1 .. (NIds + 1)
Instances == 1 .. NInstances

\* The values int(random.uniform(10000, 65535)) is sampled at: the low end of
\* the range and its last value.
RandomPorts == (PortLo .. (PortLo + NPorts - 1)) \cup {PortHi - 1}

VARIABLES
    \* ---- Server / ClientConnection state (server.py)
    clients,            \* Server.clients: the roster, a set of sessions
    idb_path,           \* ClientConnection.idb_path per session (None = unset)
    idb_client_map,     \* Server.idb_client_map: idb path -> session
    delayed_packets,    \* Server._delayed_packets: idb path -> list of packets
    sock,               \* per session: "none" (not created), "open", "closed"
    listening,          \* the Server's listening socket is open
    sent,               \* per session: packets handed to send_packet, in order
    spawned,            \* per idb path: launch_ida_gui_instance calls
    deliveries,         \* per idb path: per queue entry, times it was drained
    nmsgs,              \* inbound messages handled so far
    steps,              \* what migrate_host_and_shutdown did, in statement order
    \* ---- Port registry file (meta_dir/server_port), shared by all instances
    port_file,          \* None = the file does not exist, else the port in it
    \* ---- Continuum instances (__init__.py), one per process
    pc,                 \* per instance: position in open_project/close_project
    server_port,        \* per instance: local variable server_port
    file_seen,          \* per instance: result of os.path.exists
    server,             \* per instance: port its Server listens on, or None
    client,             \* per instance: the hub its Client is connected to, or None
    session,            \* per instance: the hub-side session of its Client
    become_host,        \* per instance: become_host packets sent to it
    failed,             \* per instance: exception that left open_project, or "no"
    opens               \* open_project calls so far

hubvars == <<clients, idb_path, idb_client_map, delayed_packets, sock,
             listening, sent, spawned, deliveries, nmsgs, steps>>
bootvars == <<pc, server_port, file_seen, server, client, session,
              become_host, failed, opens>>
vars == <<hubvars, steps, port_file, bootvars>>

\* core.client.idb_path: the identifier of the hub's own instance, and the
\* session over which the hub's own Client is connected.
LocalIdb == 1
OwnSession == 1


\* =========================================================================
\* Packets: the dictionaries the handlers build. Absent keys are None.
\* =========================================================================
Packet(kind, symbol, peer, arg) ==
    [kind |-> kind, symbol |-> symbol, client |-> peer, arg |-> arg]

\* Payloads the handlers copy into the packet unread.
AnalysisStates == {1}       \* 'state' of update_analysis_state
PurgeFlags == {1}           \* 'purge_non_indexed' of sync_types

\* project.index.find_export(symbol): the export's record, or None. Symbol k
\* is exported by idb k; the last symbol is exported by nobody.
find_export(symbol) == IF symbol \in Ids THEN symbol ELSE None

\* ProtoMixin.send_packet: hands the packet to the session's outgoing stream.
send_packet(snt, c, packet) == [snt EXCEPT ![c] = Append(@, packet)]

\* A buggy spawn that is never started.
launch_ida_gui_instance_never(sp, path) == sp

\* launch_ida_gui_instance(idb_path): one subprocess.Popen per call.
launch_ida_gui_instance(sp, path) == [sp EXCEPT ![path] = @ + 1]

\* =========================================================================
\* Server helpers
\* =========================================================================
\* A buggy rebuild that also files unidentified sessions (under None).
update_idb_client_map_unfiltered(cl, ip) ==
    {m \in [{ip[x] : x \in cl} -> cl] : \A k \in DOMAIN m : ip[m[k]] = k}

\* Server.update_idb_client_map: {x.idb_path: x for x in clients if x.idb_path
\* is not None}. clients is an unordered set, so when several sessions carry
\* one path the comprehension keeps whichever is iterated last: every such
\* outcome is in the result set.
update_idb_client_map(cl, ip) ==
    {m \in [({ip[x] : x \in cl} \ {None}) -> cl] : \A k \in DOMAIN m : ip[m[k]] = k}

\* Server.queue_delayed_packet: _delayed_packets[idb_path].append(packet).
queue_delayed_packet(dp, path, packet) ==
    [dp EXCEPT ![path] = Append(@, packet)]

\* A buggy drain that stops after the first pending packet.
process_delayed_packets_first(snt, dp, c, path) ==
    [snt EXCEPT ![c] = @ \o (IF dp[path] = <<>> THEN <<>> ELSE <<Head(dp[path])>>)]

\* Server.process_delayed_packets: sends client every packet of
\* _delayed_packets[client.idb_path], in list order. The list is only read.
process_delayed_packets(snt, dp, c, path) ==
    [snt EXCEPT ![c] = @ \o dp[path]]

\* A buggy broadcast that forgets to skip the sender.
broadcast_targets_all(cl, self) == cl

\* The sessions ClientConnection.broadcast_packet sends to: every member of
\* server.clients but self.
broadcast_targets(cl, self) == cl \ {self}

\* ClientConnection.broadcast_packet
broadcast_packet(snt, cl, self, packet) ==
    [c \in Sessions |->
        IF c \in broadcast_targets(cl, self) THEN Append(snt[c], packet) ELSE snt[c]]

\* migrate_host_and_shutdown: [x for x in clients
\*                             if x.idb_path != core.client.idb_path]
host_candidates(cl, ip) == {x \in cl : ip[x] # LocalIdb}

\* =========================================================================
\* Server / ClientConnection handlers: one action per handler
\* =========================================================================
HubInit ==
    /\ clients = {}
    /\ idb_path = [s \in Sessions |-> None]
    /\ idb_client_map = << >>
    /\ delayed_packets = [p \in Ids |-> << >>]
    /\ sock = [s \in Sessions |-> "none"]
    /\ listening = TRUE
    /\ sent = [s \in Sessions |-> << >>]
    /\ spawned = [p \in Ids |-> 0]
    /\ deliveries = [p \in Ids |-> << >>]
    /\ nmsgs = 0
    /\ steps = << >>

\* Server.handle_accept -> ClientConnection.__init__: a new session object,
\* unidentified, joins the roster. The routing table is not rebuilt.
handle_accept(s) ==
    /\ listening
    /\ sock[s] = "none"
    \* the sessions of other peers are interchangeable objects: number them
    \* in the order they are accepted
    /\ s # OwnSession =>
          \A r \in Sessions \ {OwnSession} : r < s => sock[r] # "none"
    /\ sock' = [sock EXCEPT ![s] = "open"]
    /\ idb_path' = [idb_path EXCEPT ![s] = None]
    /\ clients' = clients \cup {s}
    /\ UNCHANGED <<idb_client_map, delayed_packets, listening, sent, spawned,
                   deliveries, nmsgs, steps, port_file, bootvars>>

\* ClientConnection.handle_close: the peer's end of the connection is gone.
handle_close(s) ==
    /\ s \in clients
    /\ sock[s] = "open"
    /\ clients' = clients \ {s}
    /\ idb_client_map' \in update_idb_client_map(clients', idb_path)
    /\ sock' = [sock EXCEPT ![s] = "closed"]
    /\ UNCHANGED <<idb_path, delayed_packets, listening, sent, spawned,
                   deliveries, nmsgs, steps, port_file, bootvars>>

\* A session of the roster whose socket is readable delivers one message.
CanHandle(s) == s \in clients /\ sock[s] = "open" /\ nmsgs < MaxMsgs

\* ClientConnection.handle_msg_new_client. Nothing stops a session from
\* announcing itself twice or two sessions from announcing one path; the
\* hub's own Client announces the hub's own path.
handle_msg_new_client(s, path) ==
    /\ CanHandle(s)
    /\ s = OwnSession => path = LocalIdb
    /\ nmsgs' = nmsgs + 1
    /\ idb_path' = [idb_path EXCEPT ![s] = path]
    /\ idb_client_map' \in update_idb_client_map(clients, idb_path')
    /\ sent' = process_delayed_packets(sent, delayed_packets, s, path)
    /\ deliveries' = [deliveries EXCEPT ![path] = [k \in DOMAIN @ |-> @[k] + 1]]
    /\ UNCHANGED <<clients, delayed_packets, sock, listening, spawned,
                   steps, port_file, bootvars>>

\* ClientConnection.send_or_delay_packet
send_or_delay_packet(receiver, packet) ==
    IF receiver \in DOMAIN idb_client_map
    THEN /\ sent' = send_packet(sent, idb_client_map[receiver], packet)
         /\ UNCHANGED <<delayed_packets, spawned, deliveries>>
    ELSE /\ delayed_packets' = queue_delayed_packet(delayed_packets, receiver, packet)
         /\ spawned' = launch_ida_gui_instance(spawned, receiver)
         /\ deliveries' = [deliveries EXCEPT ![receiver] = Append(@, 0)]
         /\ UNCHANGED sent

\* A buggy handler that goes on after a failed lookup and routes the packet
\* to the last idb path.
handle_msg_focus_symbol_no_return(s, symbol) ==
    /\ CanHandle(s)
    /\ nmsgs' = nmsgs + 1
    /\ send_or_delay_packet(IF find_export(symbol) = None THEN NIds
                                                          ELSE find_export(symbol),
            Packet("focus_symbol", symbol, None, None))
    /\ UNCHANGED <<clients, idb_path, idb_client_map, sock, listening,
                   steps, port_file, bootvars>>

\* ClientConnection.handle_msg_focus_symbol
handle_msg_focus_symbol(s, symbol) ==
    /\ CanHandle(s)
    /\ nmsgs' = nmsgs + 1
    /\ IF find_export(symbol) = None
       THEN UNCHANGED <<sent, delayed_packets, spawned, deliveries>>
       ELSE send_or_delay_packet(find_export(symbol),
                Packet("focus_symbol", symbol, None, None))
    /\ UNCHANGED <<clients, idb_path, idb_client_map, sock, listening,
                   steps, port_file, bootvars>>

\* ClientConnection.handle_msg_focus_instance
handle_msg_focus_instance(s, path) ==
    /\ CanHandle(s)
    /\ nmsgs' = nmsgs + 1
    /\ send_or_delay_packet(path, Packet("focus_instance", None, None, None))
    /\ UNCHANGED <<clients, idb_path, idb_client_map, sock, listening,
                   steps, port_file, bootvars>>

\* ClientConnection.handle_msg_update_analysis_state
handle_msg_update_analysis_state(s, state) ==
    /\ CanHandle(s)
    /\ nmsgs' = nmsgs + 1
    /\ sent' = broadcast_packet(sent, clients, s,
                   Packet("analysis_state_updated", None, idb_path[s], state))
    /\ UNCHANGED <<clients, idb_path, idb_client_map, delayed_packets, sock,
                   listening, spawned, deliveries, steps, port_file, bootvars>>

\* ClientConnection.handle_msg_sync_types
handle_msg_sync_types(s, purge_non_indexed) ==
    /\ CanHandle(s)
    /\ nmsgs' = nmsgs + 1
    /\ sent' = broadcast_packet(sent, clients, s,
                   Packet("sync_types", None, None, purge_non_indexed))
    /\ UNCHANGED <<clients, idb_path, idb_client_map, delayed_packets, sock,
                   listening, spawned, deliveries, steps, port_file, bootvars>>

\* A buggy shutdown that tells the successor before the fresh port is on
\* disk and closes the sessions before the listening socket.
migrate_steps_swapped(candidates) ==
    (IF candidates # {} THEN <<"become_host", "force_fresh">> ELSE << >>)
        \o <<"close_clients", "close_listener">>

\* The statements of migrate_host_and_shutdown in the order they run: inside
\* the if, read_or_generate_server_port(force_fresh=True) and then
\* send_packet(become_host); after it, self.close() and then the loop of
\* cur_client.close().
migrate_steps(candidates) ==
    (IF candidates # {} THEN <<"force_fresh", "become_host">> ELSE << >>)
        \o <<"close_listener", "close_clients">>

\* Server.migrate_host_and_shutdown, with the read_or_generate_server_port(
\* force_fresh=True) it calls. next(iter(host_candidates)) takes the first
\* element of a list built by iterating the unordered set clients: any
\* candidate.
migrate_host_and_shutdown ==
    /\ listening
    /\ IF host_candidates(clients, idb_path) # {}
       THEN /\ port_file' \in RandomPorts
            /\ \E elected_client \in host_candidates(clients, idb_path) :
                 sent' = send_packet(sent, elected_client,
                             Packet("become_host", None, None, None))
       ELSE UNCHANGED <<port_file, sent>>
    /\ listening' = FALSE
    /\ sock' = [s \in Sessions |-> IF s \in clients THEN "closed" ELSE sock[s]]
    /\ steps' = migrate_steps(host_candidates(clients, idb_path))
    /\ UNCHANGED <<clients, idb_path, idb_client_map, delayed_packets, spawned,
                   deliveries, nmsgs, bootvars>>


\* =========================================================================
\* Continuum instances: open_project / close_project, one step per system
\* call that another process can observe or disturb.
\* =========================================================================
BootInit ==
    /\ pc = [i \in Instances |-> "idle"]
    /\ server_port = [i \in Instances |-> None]
    /\ file_seen = [i \in Instances |-> FALSE]
    /\ server = [i \in Instances |-> None]
    /\ client = [i \in Instances |-> None]
    /\ session = [i \in Instances |-> "none"]
    /\ become_host = [i \in Instances |-> 0]
    /\ failed = [i \in Instances |-> "no"]
    /\ opens = 0

\* The instances whose Server listens on port.
Listeners(port) == {h \in Instances : server[h] = port}

\* A bind that takes the port even while another socket listens on it.
bind_succeeds_always(port) == TRUE

\* Server.__init__: bind(('127.0.0.1', port)) succeeds unless a socket already
\* listens on the port (EADDRINUSE; set_reuse_addr only lifts TIME_WAIT).
bind_succeeds(port) == Listeners(port) = {}

\* sock.connect(('127.0.0.1', port)) succeeds iff a socket listens on port.
connect_succeeds(port) == Listeners(port) # {}

\* Continuum.open_project up to the call of create_server_if_none.
open_project(i) ==
    /\ pc[i] = "idle"
    /\ opens < MaxOpens
    /\ opens' = opens + 1
    /\ failed' = [failed EXCEPT ![i] = "no"]
    /\ pc' = [pc EXCEPT ![i] = "server_exists"]
    /\ UNCHANGED <<hubvars, port_file, server_port, file_seen, server, client,
                   session, become_host>>

\* read_or_generate_server_port: os.path.exists(server_port_file), in
\* create_server_if_none (from = "server_exists") or create_client.
port_file_exists(i, from, to) ==
    /\ pc[i] = from
    /\ file_seen' = [file_seen EXCEPT ![i] = (port_file # None)]
    /\ pc' = [pc EXCEPT ![i] = to]
    /\ UNCHANGED <<hubvars, port_file, server_port, server, client, session,
                   become_host, failed, opens>>

\* read_or_generate_server_port: the branch taken after the exists test,
\* int(f.read()) or int(random.uniform(10000, 65535)) written to the file.
port_read_or_generate(i, from, to) ==
    /\ pc[i] = from
    /\ IF file_seen[i]
       THEN /\ server_port' = [server_port EXCEPT ![i] = port_file]
            /\ UNCHANGED port_file
       ELSE \E fresh \in RandomPorts :
            /\ server_port' = [server_port EXCEPT ![i] = fresh]
            /\ port_file' = fresh
    /\ pc' = [pc EXCEPT ![i] = to]
    /\ UNCHANGED <<hubvars, file_seen, server, client, session, become_host,
                   failed, opens>>

\* create_server_if_none: the probe sock.connect and its except/finally.
probe_connect(i) ==
    /\ pc[i] = "server_probe"
    /\ pc' = [pc EXCEPT ![i] =
                IF connect_succeeds(server_port[i]) THEN "client_exists"
                                                    ELSE "server_bind"]
    /\ UNCHANGED <<hubvars, port_file, server_port, file_seen, server, client,
                   session, become_host, failed, opens>>

\* A create_server_if_none that swallows the bind error and carries on with
\* create_client.
create_server_swallow(i) ==
    /\ pc[i] = "server_bind"
    /\ IF bind_succeeds(server_port[i])
       THEN /\ server' = [server EXCEPT ![i] = server_port[i]]
            /\ UNCHANGED failed
       ELSE /\ failed' = [failed EXCEPT ![i] = "bind"]
            /\ UNCHANGED server
    /\ pc' = [pc EXCEPT ![i] = "client_exists"]
    /\ UNCHANGED <<hubvars, port_file, server_port, file_seen, client, session,
                   become_host, opens>>

\* create_server_if_none: self.server = Server(server_port, self). A failed
\* bind raises socket.error out of the except block and out of open_project.
create_server(i) ==
    /\ pc[i] = "server_bind"
    /\ IF bind_succeeds(server_port[i])
       THEN /\ server' = [server EXCEPT ![i] = server_port[i]]
            /\ pc' = [pc EXCEPT ![i] = "client_exists"]
            /\ UNCHANGED failed
       ELSE /\ failed' = [failed EXCEPT ![i] = "bind"]
            /\ pc' = [pc EXCEPT ![i] = "failed"]
            /\ UNCHANGED server
    /\ UNCHANGED <<hubvars, port_file, server_port, file_seen, client, session,
                   become_host, opens>>

\* create_client: sock.connect, then Client(sock, self) or
\* raise Exception("No server found"). open_project then enables the loop.
create_client(i) ==
    /\ pc[i] = "client_connect"
    /\ IF connect_succeeds(server_port[i])
       THEN \E h \in Listeners(server_port[i]) :
            /\ client' = [client EXCEPT ![i] = h]
            /\ session' = [session EXCEPT ![i] = "backlog"]
            /\ pc' = [pc EXCEPT ![i] = "running"]
            /\ UNCHANGED failed
       ELSE /\ failed' = [failed EXCEPT ![i] = "no_server"]
            /\ pc' = [pc EXCEPT ![i] = "failed"]
            /\ UNCHANGED <<client, session>>
    /\ UNCHANGED <<hubvars, port_file, server_port, file_seen, server,
                   become_host, opens>>

\* The asyncore loop of hub h runs only between its own handlers.
LoopRuns(h) == pc[h] = "running" /\ server[h] # None

\* Server.handle_accept of hub h for the connection of instance i.
hub_accept(h, i) ==
    /\ LoopRuns(h)
    /\ client[i] = h
    /\ session[i] = "backlog"
    /\ session' = [session EXCEPT ![i] = "unidentified"]
    /\ UNCHANGED <<hubvars, port_file, pc, server_port, file_seen, server,
                   client, become_host, failed, opens>>

\* ClientConnection.handle_msg_new_client of hub h for instance i's session.
hub_new_client(h, i) ==
    /\ LoopRuns(h)
    /\ client[i] = h
    /\ session[i] = "unidentified"
    /\ session' = [session EXCEPT ![i] = "identified"]
    /\ UNCHANGED <<hubvars, port_file, pc, server_port, file_seen, server,
                   client, become_host, failed, opens>>

\* Continuum.close_project up to the test `if self.server`.
close_project(i) ==
    /\ pc[i] = "running"
    /\ pc' = [pc EXCEPT ![i] = IF server[i] # None THEN "migrate" ELSE "client_close"]
    /\ UNCHANGED <<hubvars, port_file, server_port, file_seen, server, client,
                   session, become_host, failed, opens>>

\* Server.clients of hub h: the sessions accepted and not yet removed.
Roster(h) == {j \in Instances : client[j] = h /\ session[j] \in {"unidentified", "identified"}}

\* host_candidates of hub h: sessions whose idb_path differs from the hub
\* client's. Each instance has its own idb; an unidentified session has None.
boot_host_candidates(h) ==
    {j \in Roster(h) : session[j] = "unidentified" \/ j # h}

\* migrate_host_and_shutdown, first half: force_fresh write of the registry
\* and become_host to the elected session.
migrate_elect(h) ==
    /\ pc[h] = "migrate"
    /\ IF boot_host_candidates(h) # {}
       THEN /\ port_file' \in RandomPorts
            /\ \E elected_client \in boot_host_candidates(h) :
                 become_host' = [become_host EXCEPT ![elected_client] = @ + 1]
       ELSE UNCHANGED <<port_file, become_host>>
    /\ pc' = [pc EXCEPT ![h] = "shutdown"]
    /\ UNCHANGED <<hubvars, server_port, file_seen, server, client, session,
                   failed, opens>>

\* migrate_host_and_shutdown, second half: close the listening socket and
\* every session; then close_project drops self.server.
migrate_shutdown(h) ==
    /\ pc[h] = "shutdown"
    /\ server' = [server EXCEPT ![h] = None]
    /\ session' = [j \in Instances |->
                     IF client[j] = h /\ session[j] # "none" THEN "closed" ELSE session[j]]
    /\ pc' = [pc EXCEPT ![h] = "client_close"]
    /\ UNCHANGED <<hubvars, port_file, server_port, file_seen, client,
                   become_host, failed, opens>>

\* close_project: self.client.close(); self.client = None; self.project = None.
client_close(i) ==
    /\ pc[i] = "client_close"
    /\ client' = [client EXCEPT ![i] = None]
    /\ session' = [session EXCEPT ![i] = "none"]
    /\ server_port' = [server_port EXCEPT ![i] = None]
    /\ file_seen' = [file_seen EXCEPT ![i] = FALSE]
    /\ pc' = [pc EXCEPT ![i] = "idle"]
    /\ UNCHANGED <<hubvars, port_file, server, become_host, failed, opens>>

\* =========================================================================
\* Specifications
\* =========================================================================
\* Spec: a Server that has just bound the port the registry holds.
Init ==
    /\ HubInit
    /\ BootInit
    /\ port_file = PortLo

Next ==
    \/ \E s \in Sessions : handle_accept(s)
    \/ \E s \in Sessions : handle_close(s)
    \/ \E s \in Sessions, path \in Ids : handle_msg_new_client(s, path)
    \/ \E s \in Sessions, symbol \in Symbols : handle_msg_focus_symbol(s, symbol)
    \/ \E s \in Sessions, path \in Ids : handle_msg_focus_instance(s, path)
    \/ \E s \in Sessions, state \in AnalysisStates :
          handle_msg_update_analysis_state(s, state)
    \/ \E s \in Sessions, purge \in PurgeFlags : handle_msg_sync_types(s, purge)
    \/ migrate_host_and_shutdown

Spec == Init /\ [][Next]_vars

\* BootSpec: a workspace nobody has opened yet, so without a registry file.
BootSpecInit ==
    /\ HubInit
    /\ BootInit
    /\ port_file = None

BootNext ==
    \/ \E i \in Instances : open_project(i)
    \/ \E i \in Instances : port_file_exists(i, "server_exists", "server_port")
    \/ \E i \in Instances : port_read_or_generate(i, "server_port", "server_probe")
    \/ \E i \in Instances : probe_connect(i)
    \/ \E i \in Instances : create_server(i)
    \/ \E i \in Instances : port_file_exists(i, "client_exists", "client_port")
    \/ \E i \in Instances : port_read_or_generate(i, "client_port", "client_connect")
    \/ \E i \in Instances : create_client(i)
    \/ \E h \in Instances, i \in Instances : hub_accept(h, i)
    \/ \E h \in Instances, i \in Instances : hub_new_client(h, i)
    \/ \E i \in Instances : close_project(i)
    \/ \E h \in Instances : migrate_elect(h)
    \/ \E h \in Instances : migrate_shutdown(h)
    \/ \E i \in Instances : client_close(i)

BootSpec == BootSpecInit /\ [][BootNext]_vars


\* =========================================================================
\* Properties
\* =========================================================================
FocusInstancePacket == Packet("focus_instance", None, None, None)
FocusSymbolPacket(symbol) == Packet("focus_symbol", symbol, None, None)
BecomeHostPacket == Packet("become_host", None, None, None)
BroadcastKinds == {"analysis_state_updated", "sync_types"}

\* Sessions of the roster other than the hub's own local session.
OtherPeers == clients \ {OwnSession}

\* C1: after every accept / new_client / handle_close the routing table is
\* exactly the identified sessions of the roster: its keys are the non-None
\* idb paths of the roster, each value is a roster session carrying its key,
\* and while the Server is up each value's socket is still open.
C1_RoutingTableExact ==
    /\ DOMAIN idb_client_map = {idb_path[c] : c \in clients} \ {None}
    /\ \A k \in DOMAIN idb_client_map :
          /\ idb_client_map[k] \in clients
          /\ idb_path[idb_client_map[k]] = k
          /\ listening => sock[idb_client_map[k]] = "open"

\* An identified session has left while another identified one stays: the
\* leaver's key is gone from the table, the stayer's key is there.
C1_Witness ==
    /\ listening
    /\ \E s \in Sessions :
          /\ sock[s] = "closed" /\ idb_path[s] # None
          /\ idb_path[s] \notin DOMAIN idb_client_map
    /\ \E c \in clients : idb_path[c] # None /\ idb_client_map[idb_path[c]] = c

\* C2: a targeted message (focus_instance, or focus_symbol that resolves)
\* whose addressee is not in the routing table is appended to the tail of
\* the queue of that addressee; a queue never loses or reorders entries
\* while waiting; and when a session identifies with a path, the whole queue
\* of that path is sent to that session, in queue order, after what it was
\* sent before.
C2_QueuedThenDeliveredInOrder ==
    [][ /\ \A s \in Sessions, path \in Ids :
             (handle_msg_focus_instance(s, path) /\ path \notin DOMAIN idb_client_map)
                => delayed_packets'[path] = Append(delayed_packets[path], FocusInstancePacket)
        /\ \A s \in Sessions, symbol \in Symbols :
             (/\ handle_msg_focus_symbol(s, symbol)
              /\ find_export(symbol) # None
              /\ find_export(symbol) \notin DOMAIN idb_client_map)
                => delayed_packets'[find_export(symbol)] =
                      Append(delayed_packets[find_export(symbol)], FocusSymbolPacket(symbol))
        /\ \A path \in Ids :
             /\ Len(delayed_packets'[path]) >= Len(delayed_packets[path])
             /\ SubSeq(delayed_packets'[path], 1, Len(delayed_packets[path]))
                   = delayed_packets[path]
        /\ \A s \in Sessions, path \in Ids :
             handle_msg_new_client(s, path)
                => sent'[s] = sent[s] \o delayed_packets[path]
      ]_vars

\* Two different messages were queued for an absent path, then a session
\* identified with it and was sent exactly those two, in queue order.
C2_Witness ==
    \E s \in clients, path \in Ids :
        /\ idb_path[s] = path
        /\ Len(delayed_packets[path]) = 2
        /\ delayed_packets[path][1] # delayed_packets[path][2]
        /\ deliveries[path] = <<1, 1>>
        /\ sent[s] = delayed_packets[path]

\* C3: right after handle_msg_new_client for a path has run, the queue of
\* that path holds no message.
C3_QueueEmptyAfterIdentify ==
    [][ \A s \in Sessions, path \in Ids :
           handle_msg_new_client(s, path) => delayed_packets'[path] = << >> ]_vars

\* C4: no entry of a delayed queue is sent by process_delayed_packets more
\* than once in total.
C4_DeliveredAtMostOnce ==
    \A path \in Ids : \A k \in DOMAIN deliveries[path] : deliveries[path][k] <= 1

\* C5: a broadcast (analysis_state_updated, sync_types) sends nothing to the
\* session that sent it and appends the packet to the stream of every other
\* identified session of the roster at dispatch time.
C5_BroadcastSkipsSender ==
    [][ /\ \A s \in Sessions, state \in AnalysisStates :
             handle_msg_update_analysis_state(s, state)
                => /\ sent'[s] = sent[s]
                   /\ \A c \in clients \ {s} : idb_path[c] # None =>
                         sent'[c] = Append(sent[c],
                            Packet("analysis_state_updated", None, idb_path[s], state))
        /\ \A s \in Sessions, purge \in PurgeFlags :
             handle_msg_sync_types(s, purge)
                => /\ sent'[s] = sent[s]
                   /\ \A c \in clients \ {s} : idb_path[c] # None =>
                         sent'[c] = Append(sent[c], Packet("sync_types", None, None, purge))
      ]_vars

\* An identified session holds a broadcast packet while another session of
\* the roster, its sender, was sent nothing.
C5_Witness ==
    \E c \in clients, s \in clients :
        /\ c # s
        /\ idb_path[c] # None
        /\ Len(sent[c]) = 1 /\ sent[c][1].kind \in BroadcastKinds
        /\ sent[c][1].client = idb_path[s]
        /\ sent[s] = << >>

\* C6: at most one instance of the workspace holds a Server with an open
\* listening socket.
C6_AtMostOneHubPerWorkspace ==
    Cardinality({i \in Instances : server[i] # None}) <= 1

C8_ExactlyOneBecomeHost ==
    [][ (migrate_host_and_shutdown /\ OtherPeers # {})
           => \E e \in clients : sent' = send_packet(sent, e, BecomeHostPacket) ]_vars

\* C9: a shutdown with at least one other peer in the roster leaves the port
\* registry with a value different from the one before.
C9_FreshPortDiffers ==
    [][ (migrate_host_and_shutdown /\ OtherPeers # {}) => port_file' # port_file ]_vars

\* C10: a shutdown with no other peer in the roster sends no packet and
\* leaves the port registry as it was.
C10_NoSuccessorNoChange ==
    [][ (migrate_host_and_shutdown /\ OtherPeers = {})
           => (sent' = sent /\ port_file' = port_file) ]_vars

\* C11: no two distinct sessions of the roster carry the same non-None
\* idb_path.
C11_OneSessionPerIdentifier ==
    \A a \in clients, b \in clients :
        (a # b /\ idb_path[a] # None) => idb_path[a] # idb_path[b]

\* C12: launch_ida_gui_instance runs once for each packet appended to a
\* delayed queue, for the path of that queue, and never otherwise; a targeted
\* message whose addressee is in the routing table goes to the session the
\* table names, with no enqueue and no spawn.
C12_SpawnOncePerEnqueue ==
    [][ /\ \A path \in Ids :
             spawned'[path] - spawned[path]
                = Len(delayed_packets'[path]) - Len(delayed_packets[path])
        /\ \A s \in Sessions, path \in Ids :
             (handle_msg_focus_instance(s, path) /\ path \in DOMAIN idb_client_map)
                => /\ sent' = send_packet(sent, idb_client_map[path], FocusInstancePacket)
                   /\ UNCHANGED <<delayed_packets, spawned>>
        /\ \A s \in Sessions, symbol \in Symbols :
             (/\ handle_msg_focus_symbol(s, symbol)
              /\ find_export(symbol) \in DOMAIN idb_client_map)
                => /\ sent' = send_packet(sent, idb_client_map[find_export(symbol)],
                                  FocusSymbolPacket(symbol))
                   /\ UNCHANGED <<delayed_packets, spawned>>
      ]_vars

\* One message was queued for an absent path, with one spawn for it, and
\* one was sent directly to the session of a present path, with none.
C12_Witness ==
    \E p \in Ids, q \in Ids, s \in clients :
        /\ p # q
        /\ Len(delayed_packets[p]) = 1 /\ spawned[p] = 1
        /\ idb_path[s] = q /\ idb_client_map[q] = s
        /\ delayed_packets[q] = << >> /\ spawned[q] = 0
        /\ Len(sent[s]) = 1 /\ sent[s][1].kind \in {"focus_instance", "focus_symbol"}

\* C13: a focus_symbol whose symbol find_export cannot resolve changes
\* nothing but the count of handled messages: no packet is sent, no queue
\* grows, nothing is spawned, roster and routing table stay.
C13_UnresolvedSymbolDropped ==
    [][ \A s \in Sessions, symbol \in Symbols :
           (handle_msg_focus_symbol(s, symbol) /\ find_export(symbol) = None)
              => UNCHANGED <<sent, delayed_packets, spawned, clients, idb_path,
                             idb_client_map, sock>> ]_vars

\* A message was handled although no session was identified, nothing was
\* sent, queued or spawned: the unresolved focus_symbol leaves this state.
C13_Witness ==
    /\ nmsgs = MaxMsgs
    /\ clients = {OwnSession}
    /\ idb_path[OwnSession] = None
    /\ \A c \in Sessions : sent[c] = << >>
    /\ \A p \in Ids : delayed_packets[p] = << >> /\ spawned[p] = 0

\* C16: migrate_host_and_shutdown never sends become_host to the hub's own
\* local session: it sends nothing, or one become_host to a session of the
\* roster other than the hub's own.
C16_CandidatesExcludeOwnSession ==
    [][ migrate_host_and_shutdown
           => \/ sent' = sent
              \/ \E e \in OtherPeers : sent' = send_packet(sent, e, BecomeHostPacket)
      ]_vars

\* C18: a session whose socket is closed, whether by handle_close or by the
\* hub during migrate_host_and_shutdown, is neither in the roster nor a
\* value of the routing table.
C18_ClosedSessionsLeaveRoster ==
    \A s \in Sessions :
        sock[s] = "closed"
           => /\ s \notin clients
              /\ \A k \in DOMAIN idb_client_map : idb_client_map[k] # s

\* C19: a broadcast sends nothing to a session of the roster that has not
\* identified, queues nothing and spawns nothing.
C19_BroadcastOnlyToIdentified ==
    [][ \A s \in Sessions :
           (\/ \E state \in AnalysisStates : handle_msg_update_analysis_state(s, state)
            \/ \E purge \in PurgeFlags : handle_msg_sync_types(s, purge))
              => /\ \A c \in clients : idb_path[c] = None => sent'[c] = sent[c]
                 /\ UNCHANGED <<delayed_packets, spawned>>
      ]_vars

\* Position of a step in the record of the shutdown, 0 when it did not run.
StepAt(name) ==
    IF \E k \in DOMAIN steps : steps[k] = name
    THEN CHOOSE k \in DOMAIN steps : steps[k] = name
    ELSE 0

C14_ReadReturnsPersisted ==
    [][ \A i \in Instances :
           (/\ port_file # None
            /\ \/ port_read_or_generate(i, "server_port", "server_probe")
               \/ port_read_or_generate(i, "client_port", "client_connect"))
              => /\ port_file' = port_file
                 /\ server_port'[i] = port_file
      ]_vars

\* C15: an instance whose bind failed has left open_project with the error:
\* it holds no Server and no client, has no session with any hub, and its
\* bootstrap has stopped for good.
C15_BindFailureIsFatal ==
    \A i \in Instances :
        failed[i] = "bind"
           => /\ pc[i] = "failed"
              /\ server[i] = None
              /\ client[i] = None
              /\ session[i] = "none"

\* An instance lost the race for the port another instance now listens on.
C15_Witness ==
    \E j \in Instances :
        /\ failed[j] = "bind"
        /\ Listeners(server_port[j]) # {}
        /\ j \notin Listeners(server_port[j])

\* C20: an instance that has left the bootstrap of open_project holding a
\* Server has its local client connected to that Server.
C20_HubHasLocalClient ==
    \A i \in Instances :
        (server[i] # None /\ pc[i] \in {"running", "failed"}) => client[i] = i

====
